---- MODULE Spec2Model ----
(***************************************************************************)
(* A model of src/src/libpgexporter/queries.c (pgexporter): the tuple list *)
(* merge, the connection manager and the query executor.                   *)
(*                                                                         *)
(* Three specifications share the variables below:                         *)
(*   SpecMerge  pgexporter_merge_tuples on a heap of list nodes            *)
(*   SpecConn   pgexporter_open_connections / pgexporter_close_connections *)
(*   SpecExec   query_execute on the channels of the configured servers    *)
(***************************************************************************)
EXTENDS Integers, Sequences, FiniteSets, TLC

\* ------------------------------------------------------------------ bounds

\* Longest tuple list handed to pgexporter_merge_tuples.
MaxLen == 3

\* config->number_of_servers of the configurations explored.
NumServers == 2

\* Largest config->number_of_users of the configurations explored.
MaxUsers == 2

\* Calls of pgexporter_open_connections / pgexporter_close_connections in a run.
MaxCalls == 4

\* Most units a backend delivers in answer to one query.
MaxUnits == 3

\* Most bytes of a field of a row.
MaxPayload == 3

\* ------------------------------------------------------- tuple list heap

\* The NULL pointer.
NULL == 0

\* The contents of tuple->name[] that the lists are drawn from.
Names == {"db1", "db2", "db3"}

\* Addresses of the struct tuples nodes: list a is allocated in 1..MaxLen,
\* list b in MaxLen+1..2*MaxLen (two query_execute results never share a node).
NumNodes == 2 * MaxLen
Nodes == 1..NumNodes

VARIABLES
    next,     \* struct tuples .next of every node
    name,     \* struct tuples .tuple->name of every node ("" for an unused node)
    next0,    \* the .next fields when pgexporter_merge_tuples was called
    t1, t2,   \* the arguments of pgexporter_merge_tuples
    ct1, ct2, \* its cursors
    last,     \* its tail pointer
    mret,     \* its return value
    mpc       \* its position: "call", "outer", "inner", "splice", "append", "done"

mergeVars == <<next, name, next0, t1, t2, ct1, ct2, last, mret, mpc>>

\* ---------------------------------------------------- configuration state

\* The value of servers[].fd of a server with no connection.
Disconnected == -1

\* Indexes of config->servers[].
Servers == 0..(NumServers - 1)

\* The user names the configuration is drawn from.
Usernames == {"alice", "bob"}

VARIABLES
    fd,        \* config->servers[server].fd
    srvUser,   \* config->servers[server].username
    users,     \* config->users[usr].username, usr in 0..number_of_users-1
    cpc,       \* position of the connection manager: "idle", "open", "close",
               \* "terminate", "disconnect", "reset"
    lastCall,  \* the call in progress or last returned: "none", "open", "close"
    srv,       \* the loop variable server of the call in progress
    fd0,       \* servers[].fd at the start of that call
    io,        \* the calls made to the authenticator and the transport by that call
    calls,     \* number of calls started
    issued,    \* number of channels the authenticator has handed out
    closed     \* the channels pgexporter_disconnect was called on, over all calls

connVars ==
    <<fd, srvUser, users, cpc, lastCall, srv, fd0, io, calls, issued, closed>>

\* ------------------------------------------------------ query executor state

VARIABLES
    epc,      \* position of query_execute(server, ...): "idle", "send", "read",
              \* "parse", "done" (returned 0), "error" (returned 1)
    probe,    \* its arguments query, tag and columns
    data,     \* its buffer data, a sequence of frames (data_size is its length)
    offset,   \* its cursor offset into data
    root,     \* its list root ... current, as the sequence of the tuples
    tuples,   \* the caller's handle *tuples
    tuples0,  \* *tuples when query_execute was called
    status,   \* the value query_execute returned, -1 before it returns
    wire,     \* the units the backend still delivers on the server's channel
    wire0,    \* the units it had to deliver when the run started
    failed,   \* whether a send or a read of the call has failed
    fdAtCall  \* config->servers[server].fd when query_execute was called

execVars ==
    <<epc, probe, data, offset, root, tuples, tuples0, status, wire, wire0, failed,
      fdAtCall>>

\* ------------------------------------------------------------ allocator state

VARIABLES
    current,     \* the cursor current of pgexporter_free_tuples
    freedNodes,  \* for every node, the number of free(current) made on it
    freedTuples, \* for every node, the number of free(current->tuple) made on it
    fpc          \* position of pgexporter_free_tuples: "off", "idle", "loop", "done"

freeVars == <<current, freedNodes, freedTuples, fpc>>

\* -------------------------------------------------------------- decoder state

VARIABLES
    rowargs,   \* the arguments server, columns and tag of create_D_tuple
    rowmsg,    \* the bytes of msg->data
    rowtuple,  \* the struct tuple d it fills, and how the call ended
    dpc        \* position of create_D_tuple: "off", "call", "done"

decodeVars == <<rowargs, rowmsg, rowtuple, dpc>>

vars == <<mergeVars, connVars, execVars, freeVars, decodeVars>>

\* What a step of each part leaves alone.
notMerge == <<connVars, execVars, freeVars, decodeVars>>
notConn == <<mergeVars, execVars, freeVars, decodeVars>>
notExec == <<mergeVars, connVars, freeVars, decodeVars>>

\* What query_execute has no access to: all of the above but servers[].fd.
connRest == <<srvUser, users, cpc, lastCall, srv, fd0, io, calls, issued, closed>>
notQuery == <<mergeVars, connRest, freeVars, decodeVars>>
notFree == <<mergeVars, connVars, execVars, decodeVars>>
notDecode == <<mergeVars, connVars, execVars, freeVars>>

\* ------------------------------------------------- tuple lists on the heap

\* The node addresses reached from h by following nx, at most fuel of them.
RECURSIVE Walk(_, _, _)
Walk(nx, h, fuel) ==
    IF h = NULL \/ fuel = 0 THEN <<>>
    ELSE <<h>> \o Walk(nx, nx[h], fuel - 1)

\* The list headed by h as the sequence of its node addresses.
ListOf(nx, h) == Walk(nx, h, NumNodes)

\* The names carried by a sequence of nodes.
NamesOf(seq) == [i \in DOMAIN seq |-> name[seq[i]]]

\* A list of len nodes allocated from address base+1 on, linked in address order.
ChainNext(base, len) ==
    [n \in Nodes |-> IF n > base /\ n < base + len THEN n + 1 ELSE NULL]

\* !strcmp(&x->tuple->name[0], &y->tuple->name[0])
SameName(x, y) == name[x] = name[y]

\* A merge whose outer if forgets the strcmp: any node of b is spliced at once.
MatchesAnyName(c1, c2) == c2 # NULL

\* The condition of the outer if: ct2 != NULL && !strcmp(ct1 name, ct2 name)
Matches(c1, c2) == c2 # NULL /\ SameName(c1, c2)

\* A merge without the inner while: the node of b goes right after the first
\* node of the matching run.
RunNeverContinues(c1, c2) == FALSE

\* The condition of the inner while: ct1->next != NULL && !strcmp(ct1->next name, ct2 name)
RunContinues(c1, c2) == next[c1] # NULL /\ SameName(next[c1], c2)

\* An early return that hands back t1 whichever list is empty.
ReturnedFirst(x, y) == x

\* Lines 126-134: the list returned when one of the two is empty.
ReturnedWhenEmpty(x, y) == IF x = NULL THEN y ELSE x

\* An append loop that cuts the list after the node it appends.
AppendedAlone(l, c2) == [next EXCEPT ![l] = c2, ![c2] = NULL]

\* Line 162: last->next = ct2
Appended(l, c2) == [next EXCEPT ![l] = c2]

\* A splice that forgets ct2->next = tmp1: the rest of a is cut off.
SplicedWithoutTail(c1, c2) == [next EXCEPT ![c1] = c2]

\* The heap after  ct1->next = ct2; ct2->next = tmp1  with tmp1 = ct1->next.
Spliced(c1, c2) == [next EXCEPT ![c1] = c2, ![c2] = next[c1]]

\* A splice without tmp2: ct2->next is read after the splice has rewritten it.
RestOfBReadLate(c1, c2) == next[c1]

\* Lines 149 and 153: tmp2 = ct2->next, read before the splice; ct2 = tmp2.
RestOfB(c1, c2) == next[c2]

\* A free loop that stops after the head of the list.
FreeStopsAfterHead(cur) == NULL

\* Lines 181 and 186: next = current->next, read before the node is freed.
FreeSuccessor(cur) == next[cur]

\* ---------------------------------------------------- connection manager

number_of_users == Len(users)

\* config->users[usr].username (the model keeps the table as a sequence).
UserAt(usr) == users[usr + 1]

\* Lines 58-65: the first usr whose username equals the server's, or -1.
RECURSIVE FindUserFrom(_, _)
FindUserFrom(server, usr) ==
    IF usr >= number_of_users THEN -1
    ELSE IF UserAt(usr) = srvUser[server] THEN usr
         ELSE FindUserFrom(server, usr + 1)

FindUser(server) == FindUserFrom(server, 0)

\* A guard that takes every server for disconnected.
AlwaysDisconnected(h) == TRUE

\* Line 56: config->servers[server].fd == -1
IsDisconnected(h) == h = Disconnected

\* A guard that takes every server for connected.
AlwaysLive(h) == TRUE

\* Line 87: config->servers[server].fd != -1
IsLive(h) == h # Disconnected

\* An authentication call that always hands over the first server's slot.
AuthSlotFirst(server) == 0

\* Line 69: the slot whose address is passed to the authenticator,
\* &config->servers[server].fd
AuthSlot(server) == server

\* A loop that stops at the first server whose login fails.
StopOnFailure(server, ok) == IF ok THEN server + 1 ELSE NumServers

\* Lines 54 and 70-73: a failed login is logged and the loop goes on to the
\* next server.
AfterLogin(server, ok) == server + 1

\* A close that leaves the handle in place.
HandleKept(h) == h

\* Line 91: config->servers[server].fd = -1
ResetValue(h) == Disconnected

\* pgexporter_server_authenticate(server, "postgres", username, password, &fd):
\* the value left in *fd. On success the new channel, on failure what was there.
Authenticated(handle, ok, channel) == IF ok THEN channel ELSE handle

\* The username argument of the call: users[user].username, which for
\* user = -1 lies outside the table and holds whatever memory holds.
UsernameArg(user) == IF user >= 0 THEN UserAt(user) ELSE "out of bounds"

\* The tables config->users[] may hold: up to MaxUsers user names.
UserTables == UNION {[1..n -> Usernames] : n \in 0..MaxUsers}

ConnInit ==
    /\ fd = [s \in Servers |-> Disconnected]
    /\ srvUser \in [Servers -> Usernames]
    /\ users \in UserTables
    /\ cpc = "idle" /\ lastCall = "none" /\ srv = 0
    /\ fd0 = fd /\ io = <<>> /\ calls = 0 /\ issued = 0 /\ closed = <<>>

\* The connection manager is not in use.
ConnOff ==
    /\ fd = [s \in Servers |-> Disconnected]
    /\ srvUser = [s \in Servers |-> "alice"]
    /\ users = <<>>
    /\ cpc = "off" /\ lastCall = "none" /\ srv = 0
    /\ fd0 = fd /\ io = <<>> /\ calls = 0 /\ issued = 0 /\ closed = <<>>

\* pgexporter_open_connections is called (lines 45-54).
OpenCall ==
    /\ cpc = "idle" /\ calls < MaxCalls
    /\ cpc' = "open" /\ lastCall' = "open" /\ srv' = 0
    /\ fd0' = fd /\ io' = <<>> /\ calls' = calls + 1
    /\ UNCHANGED <<fd, srvUser, users, issued, closed>>
    /\ UNCHANGED notConn

\* Lines 54-75: one turn of the for loop. The outcome of the login is the
\* authenticator's; with user = -1 the call is made all the same.
OpenServer ==
    /\ cpc = "open" /\ srv < NumServers
    /\ IF IsDisconnected(fd[srv])
          THEN \E ok \in BOOLEAN :
                 LET user == FindUser(srv)
                     slot == AuthSlot(srv)
                     channel == issued + 1
                 IN  /\ io' = Append(io, [op |-> "auth", server |-> srv, user |-> user,
                                          username |-> UsernameArg(user),
                                          ok |-> ok, channel |-> channel])
                     /\ fd' = [fd EXCEPT ![slot] = Authenticated(fd[slot], ok, channel)]
                     /\ issued' = IF ok THEN channel ELSE issued
                     /\ srv' = AfterLogin(srv, ok)
          ELSE /\ srv' = srv + 1
               /\ UNCHANGED <<fd, io, issued, closed>>
    /\ UNCHANGED <<srvUser, users, cpc, lastCall, fd0, calls, closed>>
    /\ UNCHANGED notConn

\* Line 76: pgexporter_open_connections returns.
OpenReturn ==
    /\ cpc = "open" /\ srv >= NumServers
    /\ cpc' = "idle"
    /\ UNCHANGED <<fd, srvUser, users, lastCall, srv, fd0, io, calls, issued, closed>>
    /\ UNCHANGED notConn

\* pgexporter_close_connections is called (lines 78-85).
CloseCall ==
    /\ cpc = "idle" /\ calls < MaxCalls
    /\ cpc' = "close" /\ lastCall' = "close" /\ srv' = 0
    /\ fd0' = fd /\ io' = <<>> /\ calls' = calls + 1
    /\ UNCHANGED <<fd, srvUser, users, issued, closed>>
    /\ UNCHANGED notConn

\* Lines 85-87: the test of the for loop's body.
CloseServer ==
    /\ cpc = "close" /\ srv < NumServers
    /\ IF IsLive(fd[srv])
          THEN cpc' = "terminate" /\ UNCHANGED srv
          ELSE srv' = srv + 1 /\ UNCHANGED cpc
    /\ UNCHANGED <<fd, srvUser, users, lastCall, fd0, io, calls, issued, closed>>
    /\ UNCHANGED notConn

\* Line 89: pgexporter_write_terminate(NULL, fd); its result is not read.
CloseTerminate ==
    /\ cpc = "terminate"
    /\ io' = Append(io, [op |-> "terminate", server |-> srv, channel |-> fd[srv]])
    /\ cpc' = "disconnect"
    /\ UNCHANGED <<fd, srvUser, users, lastCall, srv, fd0, calls, issued, closed>>
    /\ UNCHANGED notConn

\* Line 90: pgexporter_disconnect(fd)
CloseDisconnect ==
    /\ cpc = "disconnect"
    /\ io' = Append(io, [op |-> "close", server |-> srv, channel |-> fd[srv]])
    /\ closed' = Append(closed, fd[srv])
    /\ cpc' = "reset"
    /\ UNCHANGED <<fd, srvUser, users, lastCall, srv, fd0, calls, issued>>
    /\ UNCHANGED notConn

\* Line 91: config->servers[server].fd = -1, and on to the next server.
CloseReset ==
    /\ cpc = "reset"
    /\ fd' = [fd EXCEPT ![srv] = ResetValue(fd[srv])]
    /\ srv' = srv + 1
    /\ cpc' = "close"
    /\ UNCHANGED <<srvUser, users, lastCall, fd0, io, calls, issued, closed>>
    /\ UNCHANGED notConn

\* Line 94: pgexporter_close_connections returns.
CloseReturn ==
    /\ cpc = "close" /\ srv >= NumServers
    /\ cpc' = "idle"
    /\ UNCHANGED <<fd, srvUser, users, lastCall, srv, fd0, io, calls, issued, closed>>
    /\ UNCHANGED notConn

ConnNext ==
    \/ OpenCall
    \/ OpenServer
    \/ OpenReturn
    \/ CloseCall
    \/ CloseServer
    \/ CloseTerminate
    \/ CloseDisconnect
    \/ CloseReset
    \/ CloseReturn


\* ------------------------------------------------------------ the executor

\* Lines 96-115: the three probes, as query_execute's tag and columns.
Probes ==
    { [tag |-> "pg_database", columns |-> 2],
      [tag |-> "pg_replication_slots", columns |-> 2],
      [tag |-> "pg_settings", columns |-> 3] }

NoProbe == [tag |-> "", columns |-> 0]

\* The frames of a response: row data (with the row's first field), command
\* complete and ready for query.
RowFrames == { [kind |-> "D", field |-> n] : n \in {"db1", "db2"} }
Frames == RowFrames \cup { [kind |-> "C", field |-> ""], [kind |-> "Z", field |-> ""] }

\* What one pgexporter_read_block_message may return: one frame or several,
\* the ready frame last, alone, or followed by more.
Units ==
    { <<f>> : f \in Frames } \cup
    { <<[kind |-> "D", field |-> "db1"], [kind |-> "D", field |-> "db2"]>>,
      <<[kind |-> "D", field |-> "db2"], [kind |-> "Z", field |-> ""]>>,
      <<[kind |-> "C", field |-> ""], [kind |-> "Z", field |-> ""]>>,
      <<[kind |-> "Z", field |-> ""], [kind |-> "D", field |-> "db1"]>> }

\* What a backend may deliver in answer to a query.
Responses == UNION { [1..n -> Units] : n \in 0..MaxUnits }

\* The caller's handle before the call: NULL, or a list it still holds.
NoList == <<>>
HeldList == << [server |-> -1, columns |-> 1, tag |-> "held", name |-> "held"] >>

MESSAGE_STATUS_OK == 1
MESSAGE_STATUS_ERROR == 2

\* Lines 294-306: data_append, for n != NULL.
data_append(orig, n) == orig \o n

\* pgexporter_has_message(type, data, data_size): a frame of the kind is in data.
pgexporter_has_message(type, d) == \E i \in DOMAIN d : d[i].kind = type

\* pgexporter_extract_message_offset(offset, data, &msg): the frame at offset;
\* the offset it returns is that of the next frame.
MessageAt(d, off) == d[off + 1]

\* Lines 308-367 on a frame whose first field is present: the tuple stamped
\* with server, columns and tag.
create_D_tuple(server, columns, tag, msg) ==
    [server |-> server, columns |-> columns, tag |-> tag, name |-> msg.field]

\* A parse loop that decodes every frame as a row.
AnyFrameIsRow(msg) == TRUE

\* Line 258: msg != NULL && msg->kind == 'D'
IsRowData(msg) == msg.kind = "D"

\* A read that always goes to the first server's channel.
ChannelOfFirst(server) == 0

\* Lines 224 and 233: the server whose channel, config->servers[server].fd,
\* the call writes to and reads from.
ChannelOf(server) == server

\* An error exit that gives the server's handle up.
HandleDropped(h) == Disconnected

\* Lines 286-291: the error exit frees msg and data; servers[server].fd is
\* not written.
HandleAfterError(h) == h

\* A read loop that goes on reading after the ready frame, until a read fails.
AfterReadUntilFailure(st, ready) == IF st # MESSAGE_STATUS_OK THEN "error" ELSE "read"

\* A read loop that gives up after one unit.
AfterReadOnce(st, ready) == IF st # MESSAGE_STATUS_OK THEN "error" ELSE "parse"

\* A read loop that takes a failed read for the end of the response.
AfterReadIgnoringFailure(st, ready) == IF st = MESSAGE_STATUS_OK /\ ~ready THEN "read" ELSE "parse"

\* Lines 235-248: where the read loop goes after a read.
AfterRead(st, ready) ==
    IF st # MESSAGE_STATUS_OK THEN "error"
    ELSE IF ready THEN "parse" ELSE "read"

ExecInit ==
    /\ \E s \in Servers :
         epc = [x \in Servers |-> IF x = s THEN "idle" ELSE "unused"]
    /\ probe = [s \in Servers |-> NoProbe]
    /\ data = [s \in Servers |-> <<>>]
    /\ offset = [s \in Servers |-> 0]
    /\ root = [s \in Servers |-> <<>>]
    /\ tuples \in [Servers -> {NoList}] \cup [Servers -> {HeldList}]
    /\ tuples0 = tuples
    /\ status = [s \in Servers |-> -1]
    /\ \E r \in Responses :
         wire = [s \in Servers |-> IF epc[s] = "idle" THEN r ELSE <<>>]
    /\ wire0 = wire
    /\ failed = [s \in Servers |-> FALSE]
    /\ fdAtCall = [s \in Servers |-> Disconnected]

\* No query is being executed.
ExecOff ==
    /\ epc = [s \in Servers |-> "unused"]
    /\ probe = [s \in Servers |-> NoProbe]
    /\ data = [s \in Servers |-> <<>>]
    /\ offset = [s \in Servers |-> 0]
    /\ root = [s \in Servers |-> <<>>]
    /\ tuples = [s \in Servers |-> NoList]
    /\ tuples0 = tuples
    /\ status = [s \in Servers |-> -1]
    /\ wire = [s \in Servers |-> <<>>]
    /\ wire0 = wire
    /\ failed = [s \in Servers |-> FALSE]
    /\ fdAtCall = [s \in Servers |-> Disconnected]

\* Every server holds an open channel, as after a successful OpenAll.
ConnOpen ==
    /\ fd = [s \in Servers |-> s + 1]
    /\ srvUser = [s \in Servers |-> "alice"]
    /\ users = <<"alice">>
    /\ cpc = "off" /\ lastCall = "none" /\ srv = 0
    /\ fd0 = fd /\ io = <<>> /\ calls = 0 /\ issued = NumServers /\ closed = <<>>

\* One of the probes calls query_execute (lines 96-115, 192-222).
ExecCall(s) ==
    /\ epc[s] = "idle"
    /\ \E q \in Probes : probe' = [probe EXCEPT ![s] = q]
    /\ epc' = [epc EXCEPT ![s] = "send"]
    /\ tuples0' = [tuples0 EXCEPT ![s] = tuples[s]]
    /\ data' = [data EXCEPT ![s] = <<>>]
    /\ offset' = [offset EXCEPT ![s] = 0]
    /\ root' = [root EXCEPT ![s] = <<>>]
    /\ fdAtCall' = [fdAtCall EXCEPT ![s] = fd[s]]
    /\ UNCHANGED <<tuples, status, wire, wire0, failed, fd>>

\* Lines 224-228: the query is written; a failure returns 1.
ExecSend(s) ==
    /\ epc[s] = "send"
    /\ \E st \in {MESSAGE_STATUS_OK, MESSAGE_STATUS_ERROR} :
         IF st # MESSAGE_STATUS_OK
            THEN /\ epc' = [epc EXCEPT ![s] = "error"]
                 /\ status' = [status EXCEPT ![s] = 1]
                 /\ failed' = [failed EXCEPT ![s] = TRUE]
                 /\ fd' = [fd EXCEPT ![s] = HandleAfterError(fd[s])]
            ELSE /\ epc' = [epc EXCEPT ![s] = "read"]
                 /\ UNCHANGED <<status, failed, fd>>
    /\ UNCHANGED <<probe, data, offset, root, tuples, tuples0, wire, wire0, fdAtCall>>

\* Lines 231-252: one turn of the read loop. The read delivers the next unit
\* of the backend, or fails.
ExecRead(s) ==
    /\ epc[s] = "read"
    /\ \E st \in {MESSAGE_STATUS_OK, MESSAGE_STATUS_ERROR} :
         IF st = MESSAGE_STATUS_OK
            THEN /\ wire[ChannelOf(s)] # <<>>
                 /\ data' = [data EXCEPT ![s] =
                               data_append(data[s], Head(wire[ChannelOf(s)]))]
                 /\ wire' = [wire EXCEPT ![ChannelOf(s)] = Tail(wire[ChannelOf(s)])]
                 /\ epc' = [epc EXCEPT ![s] =
                              AfterRead(st, pgexporter_has_message("Z", data'[s]))]
                 /\ status' = [status EXCEPT ![s] =
                                 IF epc'[s] = "error" THEN 1 ELSE status[s]]
                 /\ UNCHANGED failed
            ELSE /\ epc' = [epc EXCEPT ![s] = AfterRead(st, FALSE)]
                 /\ status' = [status EXCEPT ![s] =
                                 IF epc'[s] = "error" THEN 1 ELSE status[s]]
                 /\ failed' = [failed EXCEPT ![s] = TRUE]
                 /\ UNCHANGED <<data, wire>>
    /\ fd' = [fd EXCEPT ![s] = IF epc'[s] = "error" THEN HandleAfterError(fd[s])
                                                     ELSE fd[s]]
    /\ UNCHANGED <<probe, offset, root, tuples, tuples0, wire0, fdAtCall>>

\* Lines 254-284: one turn of the parse loop, or past it the hand-over of
\* root and the return of 0.
ExecParse(s) ==
    /\ epc[s] = "parse"
    /\ IF offset[s] < Len(data[s])
          THEN LET msg == MessageAt(data[s], offset[s])
               IN  /\ offset' = [offset EXCEPT ![s] = offset[s] + 1]
                   /\ root' = [root EXCEPT ![s] =
                                 IF IsRowData(msg)
                                    THEN Append(root[s],
                                                create_D_tuple(s, probe[s].columns,
                                                               probe[s].tag, msg))
                                    ELSE root[s]]
                   /\ UNCHANGED <<epc, tuples, status>>
          ELSE /\ tuples' = [tuples EXCEPT ![s] = root[s]]
               /\ status' = [status EXCEPT ![s] = 0]
               /\ epc' = [epc EXCEPT ![s] = "done"]
               /\ UNCHANGED <<offset, root>>
    /\ UNCHANGED <<probe, data, tuples0, wire, wire0, failed, fdAtCall, fd>>

Call == \E s \in Servers : ExecCall(s) /\ UNCHANGED notQuery
Send == \E s \in Servers : ExecSend(s) /\ UNCHANGED notQuery
Read == \E s \in Servers : ExecRead(s) /\ UNCHANGED notQuery
Parse == \E s \in Servers : ExecParse(s) /\ UNCHANGED notQuery

ExecNext ==
    \/ Call
    \/ Send
    \/ Read
    \/ Parse

\* ------------------------------------------------------------- the decoder

\* The size of each of the arrays name, value and desc of struct tuple. The
\* arrays follow one another in the struct; the model keeps them small.
SlotCapacity == 2

\* The three arrays as one stretch of memory: name, value, desc.
SlotBytes == 3 * SlotCapacity

\* The bytes of the strings a backend sends: 'a' and 'b'.
PayloadBytes == {97, 98}

\* A field of a row: absent (NULL, sent with length -1), or a string of up to
\* MaxPayload bytes, here of one repeated byte.
Absent == <<-1>>
Payloads == { [i \in 1..n |-> c] : n \in 0..MaxPayload, c \in PayloadBytes }
Fields == Payloads \cup {Absent}

\* Four bytes, most significant first, of a 32-bit integer in two's complement.
Int32Bytes(n) ==
    LET low == IF n < 0 THEN (n + 2147483647) + 1 ELSE n
        top == IF n < 0 THEN 128 ELSE 0
    IN  << top + low \div 16777216, (low \div 65536) % 256, (low \div 256) % 256,
           low % 256 >>

\* Two bytes, most significant first, of a 16-bit integer.
Int16Bytes(n) == << (n \div 256) % 256, n % 256 >>

\* pgexporter_read_int32(data + off): the signed 32-bit integer at off.
pgexporter_read_int32(bytes, off) ==
    LET low == (bytes[off + 1] % 128) * 16777216 + bytes[off + 2] * 65536
               + bytes[off + 3] * 256 + bytes[off + 4]
    IN  IF bytes[off + 1] >= 128 THEN (low - 2147483647) - 1 ELSE low

\* A field on the wire: its length and its bytes, or -1 and nothing.
FieldBytes(f) == IF f = Absent THEN Int32Bytes(-1) ELSE Int32Bytes(Len(f)) \o f

RECURSIVE FieldsBytes(_)
FieldsBytes(fs) ==
    IF fs = <<>> THEN <<>> ELSE FieldBytes(Head(fs)) \o FieldsBytes(Tail(fs))

\* A well-formed row-data message: 'D', the length of what follows the kind
\* byte, the number of fields, the fields.
RowMessage(fs) ==
    <<68>> \o Int32Bytes(4 + 2 + Len(FieldsBytes(fs))) \o Int16Bytes(Len(fs))
           \o FieldsBytes(fs)

\* memcpy(&d->slot[0], msg->data + off, length) on the memory of the three
\* arrays, base being where the slot starts: bytes past the slot's end land
\* in the slots that follow, bytes past desc land outside the arrays.
Copied(mem, base, bytes, off, length) ==
    [i \in 1..SlotBytes |->
       IF i > base /\ i <= base + length THEN bytes[off + i - base] ELSE mem[i]]

\* Lines 328-360 on memory zeroed by line 320: what the arrays hold after the
\* copies of the first columns fields, and whether a copy went past the end
\* of its array.
Decoded(columns, bytes) ==
    LET mem0 == [i \in 1..SlotBytes |-> 0]
        off0 == 7
        len1 == pgexporter_read_int32(bytes, off0)
        mem1 == IF len1 > 0 THEN Copied(mem0, 0, bytes, off0 + 4, len1) ELSE mem0
        off1 == IF len1 > 0 THEN off0 + 4 + len1 ELSE off0 + 4
        len2 == IF columns >= 2 THEN pgexporter_read_int32(bytes, off1) ELSE 0
        mem2 == IF len2 > 0
                   THEN Copied(mem1, SlotCapacity, bytes, off1 + 4, len2) ELSE mem1
        off2 == IF columns >= 2
                   THEN (IF len2 > 0 THEN off1 + 4 + len2 ELSE off1 + 4) ELSE off1
        len3 == IF columns >= 3 THEN pgexporter_read_int32(bytes, off2) ELSE 0
        mem3 == IF len3 > 0
                   THEN Copied(mem2, 2 * SlotCapacity, bytes, off2 + 4, len3)
                   ELSE mem2
    IN  [mem |-> mem3,
         overrun |-> len1 > SlotCapacity \/ len2 > SlotCapacity
                       \/ len3 > SlotCapacity]

\* The tuple before create_D_tuple has run.
NoTuple == [server |-> -1, columns |-> 0, tag |-> "", mem |-> <<>>, ended |-> "no"]

\* The tags of the three probes.
Tags == {q.tag : q \in Probes}

\* The decoder is not in use.
DecodeOff ==
    /\ rowargs = [server |-> 0, columns |-> 0, tag |-> ""]
    /\ rowmsg = <<>>
    /\ rowtuple = NoTuple
    /\ dpc = "off"

\* create_D_tuple is about to be called on a well-formed row-data message
\* that has at least columns fields.
DecodeInit ==
    /\ rowargs \in [server : Servers, columns : 1..3, tag : Tags]
    /\ \E n \in 1..3 : \E fs \in [1..n -> Fields] :
         /\ n >= rowargs.columns
         /\ rowmsg = RowMessage(fs)
    /\ rowtuple = NoTuple
    /\ dpc = "call"

\* Lines 308-367. A copy longer than its array is undefined: it spills into
\* what follows the array, or a checking memcpy aborts the process.
CreateDTuple ==
    /\ dpc = "call"
    /\ LET r == Decoded(rowargs.columns, rowmsg)
       IN  \E ended \in (IF r.overrun THEN {"returned", "aborted"} ELSE {"returned"}) :
             rowtuple' = [server |-> rowargs.server, columns |-> rowargs.columns,
                          tag |-> rowargs.tag, mem |-> r.mem, ended |-> ended]
    /\ dpc' = "done"
    /\ UNCHANGED <<rowargs, rowmsg>>
    /\ UNCHANGED notDecode

DecodeNext ==
    \/ CreateDTuple

\* ---------------------------------------- pgexporter_merge_tuples, by steps

MergeInit ==
    \E la \in 0..MaxLen, lb \in 0..MaxLen :
      \E na \in [1..la -> Names], nb \in [1..lb -> Names] :
        /\ next = [n \in Nodes |-> IF ChainNext(0, la)[n] # NULL
                                      THEN ChainNext(0, la)[n]
                                      ELSE ChainNext(MaxLen, lb)[n]]
        /\ name = [n \in Nodes |-> IF n <= la THEN na[n]
                                   ELSE IF n > MaxLen /\ n <= MaxLen + lb
                                        THEN nb[n - MaxLen]
                                        ELSE ""]
        /\ t1 = IF la = 0 THEN NULL ELSE 1
        /\ t2 = IF lb = 0 THEN NULL ELSE MaxLen + 1
        /\ next0 = next
        /\ ct1 = NULL /\ ct2 = NULL /\ last = NULL /\ mret = NULL
        /\ mpc = "call"

\* Lines 126-137: the two early returns, else the cursors are set.
MergeEnter ==
    /\ mpc = "call"
    /\ IF t1 = NULL \/ t2 = NULL
          THEN mret' = ReturnedWhenEmpty(t1, t2) /\ mpc' = "done" /\ UNCHANGED <<ct1, ct2>>
          ELSE ct1' = t1 /\ ct2' = t2 /\ mpc' = "outer" /\ UNCHANGED mret
    /\ UNCHANGED <<next, name, next0, t1, t2, last>>
    /\ UNCHANGED notMerge

\* Lines 139-141 and 156-157: one test of the outer while and, when the
\* names differ, the rest of its body.
MergeOuter ==
    /\ mpc = "outer"
    /\ IF ct1 = NULL
          THEN mpc' = "append" /\ UNCHANGED <<ct1, last>>
          ELSE IF Matches(ct1, ct2)
                  THEN mpc' = "inner" /\ UNCHANGED <<ct1, last>>
                  ELSE last' = ct1 /\ ct1' = next[ct1] /\ mpc' = "outer"
    /\ UNCHANGED <<next, name, next0, t1, t2, ct2, mret>>
    /\ UNCHANGED notMerge

\* Lines 143-146: one test of the inner while.
MergeInner ==
    /\ mpc = "inner"
    /\ IF RunContinues(ct1, ct2)
          THEN ct1' = next[ct1] /\ mpc' = "inner"
          ELSE mpc' = "splice" /\ UNCHANGED ct1
    /\ UNCHANGED <<next, name, next0, t1, t2, ct2, last, mret>>
    /\ UNCHANGED notMerge

\* Lines 148-157: splice ct2 in after ct1 and step the cursor onto it.
MergeSplice ==
    /\ mpc = "splice"
    /\ next' = Spliced(ct1, ct2)
    /\ ct2' = RestOfB(ct1, ct2)
    /\ last' = ct1
    /\ ct1' = next'[ct1]
    /\ mpc' = "outer"
    /\ UNCHANGED <<name, next0, t1, t2, mret>>
    /\ UNCHANGED notMerge

\* Lines 160-168: one turn of the append loop, or the return of t1.
MergeAppend ==
    /\ mpc = "append"
    /\ IF ct2 # NULL
          THEN /\ next' = Appended(last, ct2)
               /\ last' = next'[last]
               /\ ct2' = next'[ct2]
               /\ UNCHANGED <<mret, mpc>>
          ELSE /\ mret' = t1 /\ mpc' = "done"
               /\ UNCHANGED <<next, last, ct2>>
    /\ UNCHANGED <<name, next0, t1, t2, ct1>>
    /\ UNCHANGED notMerge

MergeNext ==
    \/ MergeEnter
    \/ MergeOuter
    \/ MergeInner
    \/ MergeSplice
    \/ MergeAppend

\* No merge is in progress and the heap holds no list.
MergeOff ==
    /\ next = [n \in Nodes |-> NULL]
    /\ name = [n \in Nodes |-> ""]
    /\ next0 = next
    /\ t1 = NULL /\ t2 = NULL /\ ct1 = NULL /\ ct2 = NULL
    /\ last = NULL /\ mret = NULL
    /\ mpc = "off"

\* ------------------------------------------ pgexporter_free_tuples, by steps

\* Nothing has been freed; pgexporter_free_tuples is not called in the run.
FreeOff ==
    /\ current = NULL
    /\ freedNodes = [n \in Nodes |-> 0]
    /\ freedTuples = [n \in Nodes |-> 0]
    /\ fpc = "off"

\* Nothing has been freed; the caller of the merge will free what it returns.
FreeInit ==
    /\ current = NULL
    /\ freedNodes = [n \in Nodes |-> 0]
    /\ freedTuples = [n \in Nodes |-> 0]
    /\ fpc = "idle"

\* Lines 171-177: the caller frees the list the merge returned.
FreeCall ==
    /\ fpc = "idle" /\ mpc = "done"
    /\ current' = mret
    /\ fpc' = "loop"
    /\ UNCHANGED <<freedNodes, freedTuples>>
    /\ UNCHANGED notFree

\* Lines 179-189: one turn of the while loop, or the return of 0.
FreeStep ==
    /\ fpc = "loop"
    /\ IF current # NULL
          THEN /\ freedTuples' = [freedTuples EXCEPT ![current] = @ + 1]
               /\ freedNodes' = [freedNodes EXCEPT ![current] = @ + 1]
               /\ current' = FreeSuccessor(current)
               /\ UNCHANGED fpc
          ELSE /\ fpc' = "done"
               /\ UNCHANGED <<current, freedNodes, freedTuples>>
    /\ UNCHANGED notFree

FreeNext ==
    \/ MergeEnter
    \/ MergeOuter
    \/ MergeInner
    \/ MergeSplice
    \/ MergeAppend
    \/ FreeCall
    \/ FreeStep

InitMerge == MergeInit /\ ConnOff /\ ExecOff /\ FreeOff /\ DecodeOff

SpecMerge == InitMerge /\ [][MergeNext]_vars

\* The merge runs to its return: nothing preempts a call.
SpecMergeFair == InitMerge /\ [][MergeNext]_vars /\ WF_vars(MergeNext)

InitFree == MergeInit /\ ConnOff /\ ExecOff /\ FreeInit /\ DecodeOff

SpecFree == InitFree /\ [][FreeNext]_vars

InitDecode == DecodeInit /\ MergeOff /\ ConnOff /\ ExecOff /\ FreeOff

SpecDecode == InitDecode /\ [][DecodeNext]_vars

InitConn == ConnInit /\ MergeOff /\ ExecOff /\ FreeOff /\ DecodeOff

SpecConn == InitConn /\ [][ConnNext]_vars

InitExec == ExecInit /\ ConnOpen /\ MergeOff /\ FreeOff /\ DecodeOff

SpecExec == InitExec /\ [][ExecNext]_vars

\* A read on a channel that has a unit to deliver returns, with the unit or
\* with a failure.
ReadReturns ==
    \E s \in Servers :
      wire[ChannelOf(s)] # <<>> /\ ExecRead(s) /\ UNCHANGED notQuery

\* The units of a response without rows: command complete and ready frames.
LiveUnits == {u \in Units : u[1].kind \in {"C", "Z"}}

LiveResponses == UNION { [1..n -> LiveUnits] : n \in 0..MaxUnits }

\* One server is about to be queried; its backend delivers up to MaxUnits
\* units, with a ready frame among them or without.
LiveInit ==
    /\ \E s \in Servers :
         epc = [x \in Servers |-> IF x = s THEN "idle" ELSE "unused"]
    /\ probe = [s \in Servers |-> NoProbe]
    /\ data = [s \in Servers |-> <<>>]
    /\ offset = [s \in Servers |-> 0]
    /\ root = [s \in Servers |-> <<>>]
    /\ tuples = [s \in Servers |-> NoList]
    /\ tuples0 = tuples
    /\ status = [s \in Servers |-> -1]
    /\ \E r \in LiveResponses :
         wire = [s \in Servers |-> IF epc[s] = "idle" THEN r ELSE <<>>]
    /\ wire0 = wire
    /\ failed = [s \in Servers |-> FALSE]
    /\ fdAtCall = [s \in Servers |-> Disconnected]

InitLive == LiveInit /\ ConnOpen /\ MergeOff /\ FreeOff /\ DecodeOff

\* A call runs on: the caller calls, the send returns, a read returns when
\* the backend has something to deliver, the parse loop takes its steps. A
\* read on a silent channel may block for ever.
SpecExecFair ==
    /\ InitLive /\ [][ExecNext]_vars
    /\ WF_vars(Call) /\ WF_vars(Send) /\ WF_vars(ReadReturns) /\ WF_vars(Parse)

\* -------------------------------------------- queries on several servers

\* What the backends answer when every server is queried at once.
PairResponses ==
    { << <<[kind |-> "D", field |-> "db1"]>>,
         <<[kind |-> "C", field |-> ""], [kind |-> "Z", field |-> ""]>> >>,
      << <<[kind |-> "D", field |-> "db2"], [kind |-> "Z", field |-> ""]>> >>,
      << <<[kind |-> "C", field |-> ""], [kind |-> "Z", field |-> ""]>> >>,
      << <<[kind |-> "D", field |-> "db1"]>> >> }

\* Every server is about to be queried, each by its own caller and each with
\* a backend that answers in its own way.
PairInit ==
    /\ epc = [s \in Servers |-> "idle"]
    /\ probe = [s \in Servers |-> NoProbe]
    /\ data = [s \in Servers |-> <<>>]
    /\ offset = [s \in Servers |-> 0]
    /\ root = [s \in Servers |-> <<>>]
    /\ tuples = [s \in Servers |-> NoList]
    /\ tuples0 = tuples
    /\ status = [s \in Servers |-> -1]
    /\ wire \in [Servers -> PairResponses]
    /\ wire0 = wire
    /\ failed = [s \in Servers |-> FALSE]
    /\ fdAtCall = [s \in Servers |-> Disconnected]

InitPair == PairInit /\ ConnOpen /\ MergeOff /\ FreeOff /\ DecodeOff

\* The calls take their steps in any order.
SpecPair == InitPair /\ [][ExecNext]_vars

\* ------------------------------------------------- a session of the caller

\* What the backends answer in a session: nothing, or one unit.
SessionResponses == {r \in Responses : Len(r) <= 1}

\* No query_execute is between its call and its return.
NoQueryRunning == \A s \in Servers : epc[s] \in {"idle", "done", "error"}

\* One user, known to every server; no server is connected, no query has run.
SessionInit ==
    /\ fd = [s \in Servers |-> Disconnected]
    /\ srvUser = [s \in Servers |-> "alice"]
    /\ users = <<"alice">>
    /\ cpc = "idle" /\ lastCall = "none" /\ srv = 0
    /\ fd0 = fd /\ io = <<>> /\ calls = 0 /\ issued = 0 /\ closed = <<>>
    /\ epc = [s \in Servers |-> "idle"]
    /\ probe = [s \in Servers |-> NoProbe]
    /\ data = [s \in Servers |-> <<>>]
    /\ offset = [s \in Servers |-> 0]
    /\ root = [s \in Servers |-> <<>>]
    /\ tuples = [s \in Servers |-> NoList]
    /\ tuples0 = tuples
    /\ status = [s \in Servers |-> -1]
    /\ \E r \in SessionResponses : wire = [s \in Servers |-> r]
    /\ wire0 = wire
    /\ failed = [s \in Servers |-> FALSE]
    /\ fdAtCall = [s \in Servers |-> Disconnected]

\* The caller calls OpenAll or CloseAll between two queries.
SessionOpen == NoQueryRunning /\ OpenCall
SessionClose == NoQueryRunning /\ CloseCall

\* The caller runs a probe on a connected server, between two calls of the
\* connection manager.
SessionQuery ==
    \E s \in Servers :
      /\ cpc = "idle" /\ NoQueryRunning /\ calls < MaxCalls
      /\ IsLive(fd[s])
      /\ ExecCall(s)
      /\ calls' = calls + 1 /\ lastCall' = "query"
      /\ UNCHANGED <<srvUser, users, cpc, srv, fd0, io, issued, closed>>
      /\ UNCHANGED <<mergeVars, freeVars, decodeVars>>

SessionNext ==
    \/ SessionOpen
    \/ OpenServer
    \/ OpenReturn
    \/ SessionClose
    \/ CloseServer
    \/ CloseTerminate
    \/ CloseDisconnect
    \/ CloseReset
    \/ CloseReturn
    \/ SessionQuery
    \/ Send
    \/ Read
    \/ Parse

InitSession == SessionInit /\ MergeOff /\ FreeOff /\ DecodeOff

SpecSession == InitSession /\ [][SessionNext]_vars

\* ------------------------------------------------ merge: what is observed

\* The two argument lists as they were at the call, and the returned list.
A0 == ListOf(next0, t1)
B0 == ListOf(next0, t2)
Result == ListOf(next, mret)

\* Equal names are contiguous in a sequence of names.
Grouped(ns) ==
    \A i, j, k \in DOMAIN ns : (i < j /\ j < k /\ ns[i] = ns[k]) => ns[j] = ns[i]

\* The names of a sequence of names, one per run, in order of first occurrence.
RECURSIVE GroupNames(_)
GroupNames(ns) ==
    IF ns = <<>> THEN <<>>
    ELSE LET front == GroupNames(SubSeq(ns, 1, Len(ns) - 1))
         IN  IF Len(ns) > 1 /\ ns[Len(ns)] = ns[Len(ns) - 1]
                THEN front
                ELSE Append(front, ns[Len(ns)])

Occurs(x, seq) == \E i \in DOMAIN seq : seq[i] = x

\* Every element of sub occurs in seq, and in the same relative order.
InOrderOf(sub, seq) ==
    /\ \A i \in DOMAIN sub : Occurs(sub[i], seq)
    /\ \A i, j \in DOMAIN sub :
         i < j => \E p, q \in DOMAIN seq : p < q /\ seq[p] = sub[i] /\ seq[q] = sub[j]

GA == GroupNames(NamesOf(A0))
GB == GroupNames(NamesOf(B0))

BothGrouped == Grouped(NamesOf(A0)) /\ Grouped(NamesOf(B0))

\* b's group names are a run of names of a, in a's order, followed by names
\* that a does not hold.
OrderCompatible ==
    \E k \in 0..Len(GB) :
      /\ InOrderOf(SubSeq(GB, 1, k), GA)
      /\ \A i \in (k + 1)..Len(GB) : ~Occurs(GB[i], GA)

\* The nodes of seq that carry name g, in order.
RECURSIVE WithName(_, _)
WithName(seq, g) ==
    IF seq = <<>> THEN <<>>
    ELSE IF name[Head(seq)] = g THEN <<Head(seq)>> \o WithName(Tail(seq), g)
         ELSE WithName(Tail(seq), g)

\* For each name of gs in turn: a's nodes of that name, then b's.
RECURSIVE GroupWise(_)
GroupWise(gs) ==
    IF gs = <<>> THEN <<>>
    ELSE WithName(A0, Head(gs)) \o WithName(B0, Head(gs)) \o GroupWise(Tail(gs))

\* C1 as stated: whenever a and b are each grouped by name, the list
\* returned by the merge is grouped by name.
C1_GroupedForAnyGroupedInputs ==
    (mpc = "done" /\ BothGrouped) => Grouped(NamesOf(Result))

\* C1 amended: for a and b each grouped by name, where b's group names are
\* names of a in a's relative order followed by names that do not occur in a,
\* the list returned by the merge is grouped by name.
C1_GroupedForCompatibleInputs ==
    (mpc = "done" /\ BothGrouped /\ OrderCompatible) => Grouped(NamesOf(Result))

\* A merge of two grouped, order-compatible lists has returned after splicing
\* one group of b into a and appending another.
C1_Witness ==
    /\ mpc = "done" /\ BothGrouped /\ OrderCompatible
    /\ Len(GA) >= 2 /\ Len(GB) >= 2
    /\ Occurs(GB[1], GA) /\ ~Occurs(GB[Len(GB)], GA)
    /\ Grouped(NamesOf(Result))

\* C2: for non-empty grouped a and b where every name of b occurs in a, in
\* the order of a's groups, the merge returns, group by group in a's order,
\* a's nodes of the name followed by b's nodes of the name.
C2_GroupAbsorbsAfterRun ==
    (mpc = "done" /\ t1 # NULL /\ t2 # NULL /\ BothGrouped /\ InOrderOf(GB, GA))
        => Result = GroupWise(GA)

\* A merge has returned where a run of two nodes of a absorbed two nodes
\* of b and a later group of a follows them.
C2_Witness ==
    /\ mpc = "done" /\ t1 # NULL /\ t2 # NULL /\ BothGrouped /\ InOrderOf(GB, GA)
    /\ Len(GA) >= 2
    /\ Len(WithName(A0, GA[1])) >= 2 /\ Len(WithName(B0, GA[1])) >= 2
    /\ Result = GroupWise(GA)

\* C3: with an empty list on either side the merge returns the other list:
\* the same head, the same nodes in the same order, and every link as it was.
C3_EmptyIsIdentity ==
    (mpc = "done" /\ (t1 = NULL \/ t2 = NULL))
        => /\ t1 = NULL => (mret = t2 /\ Result = B0)
           /\ t2 = NULL => (mret = t1 /\ Result = A0)
           /\ next = next0

\* A merge of the empty list with a list of two or more nodes has returned.
C3_Witness ==
    /\ mpc = "done" /\ t1 = NULL /\ Len(B0) >= 2 /\ mret = t2 /\ Result = B0

\* C4: when both lists are non-empty and no name of b occurs in a, the merge
\* returns a's nodes in their order followed by b's nodes in their order.
C4_DisjointNamesAppend ==
    (mpc = "done" /\ t1 # NULL /\ t2 # NULL
       /\ \A i \in DOMAIN B0 : ~Occurs(name[B0[i]], NamesOf(A0)))
        => Result = A0 \o B0

\* A merge of lists with no common name, b of two nodes or more, has returned.
C4_Witness ==
    /\ mpc = "done" /\ t1 # NULL /\ Len(B0) >= 2 /\ Len(A0) >= 2
    /\ \A i \in DOMAIN B0 : ~Occurs(name[B0[i]], NamesOf(A0))
    /\ Result = A0 \o B0

\* ------------------------------------- merge and free: what is observed

ToSet(seq) == {seq[i] : i \in DOMAIN seq}

\* The list headed by h ends in NULL within NumNodes nodes.
Acyclic(nx, h) == Len(Walk(nx, h, NumNodes + 1)) <= NumNodes

\* The elements of seq that are in set S, in order.
RECURSIVE Restrict(_, _)
Restrict(seq, S) ==
    IF seq = <<>> THEN <<>>
    ELSE (IF Head(seq) \in S THEN <<Head(seq)>> ELSE <<>>) \o Restrict(Tail(seq), S)

IsSuffix(p, q) == Len(p) <= Len(q) /\ p = SubSeq(q, Len(q) - Len(p) + 1, Len(q))

\* C16: the merge of two non-empty lists, grouped or not, returns; the list
\* it returns starts at a's head, ends in NULL, and holds every node of a and
\* of b once and no other node.
C16_MergeConservesNodes ==
    /\ <>(mpc = "done")
    /\ []((mpc = "done" /\ t1 # NULL /\ t2 # NULL) =>
            /\ mret = t1
            /\ Acyclic(next, mret)
            /\ Len(Result) = Len(A0) + Len(B0)
            /\ ToSet(Result) = ToSet(A0) \cup ToSet(B0))

\* A merge has returned after splicing into a list that is not grouped.
C16_Witness ==
    /\ mpc = "done" /\ t1 # NULL /\ t2 # NULL
    /\ ~Grouped(NamesOf(A0)) /\ Len(B0) >= 2
    /\ Result # A0 \o B0
    /\ Acyclic(next, mret) /\ ToSet(Result) = ToSet(A0) \cup ToSet(B0)

\* C17: one FreeList on the list the merge returned frees every node and
\* every tuple of a and of b once, none twice, and nothing else; the handles
\* a and b then point at freed nodes.
C17_FreeReleasesAllOnce ==
    /\ \A n \in Nodes : freedNodes[n] <= 1 /\ freedTuples[n] <= 1
    /\ fpc = "done" =>
         /\ \A n \in Nodes :
              /\ freedNodes[n] = IF n \in ToSet(A0) \cup ToSet(B0) THEN 1 ELSE 0
              /\ freedTuples[n] = freedNodes[n]
         /\ t1 # NULL => freedNodes[t1] = 1
         /\ t2 # NULL => freedNodes[t2] = 1

\* The list returned by a merge of two lists of two nodes or more has been
\* freed.
C17_Witness ==
    /\ fpc = "done" /\ Len(A0) >= 2 /\ Len(B0) >= 2
    /\ \A n \in ToSet(A0) \cup ToSet(B0) : freedNodes[n] = 1 /\ freedTuples[n] = 1

\* C18: b is consumed from its head only: what is left of b is always an
\* intact suffix of b, the node spliced is the first node of b not yet in the
\* list, and the returned list keeps a's nodes and b's nodes in their own
\* orders; if the name of b's first node does not occur in a, the result is a
\* followed by all of b.
C18_ConsumedFromHead ==
    /\ mpc \in {"outer", "inner", "splice", "append"}
         => IsSuffix(ListOf(next, ct2), B0)
    /\ mpc = "splice" =>
         \A i \in DOMAIN B0 :
           B0[i] = ct2 =>
             \A j \in DOMAIN B0 : (B0[j] \in ToSet(ListOf(next, t1))) <=> (j < i)
    /\ (mpc = "done" /\ t1 # NULL /\ t2 # NULL) =>
         /\ Restrict(Result, ToSet(B0)) = B0
         /\ Restrict(Result, ToSet(A0)) = A0
         /\ ~Occurs(name[t2], NamesOf(A0)) => Result = A0 \o B0

\* A merge has returned a followed by all of b although a later name of b
\* occurs in a.
C18_Witness ==
    /\ mpc = "done" /\ t1 # NULL /\ t2 # NULL
    /\ ~Occurs(name[t2], NamesOf(A0))
    /\ \E i \in DOMAIN B0 : Occurs(name[B0[i]], NamesOf(A0))
    /\ Result = A0 \o B0

\* ------------------------------------- connection manager: what is observed

OpenReturned == lastCall = "open" /\ cpc = "idle"
CloseReturned == lastCall = "close" /\ cpc = "idle"

\* The calls of the authenticator for server s made by the call in progress.
AuthsFor(s) == {i \in DOMAIN io : io[i].op = "auth" /\ io[i].server = s}

\* Server s was disconnected when the call started.
WasDisconnected(s) == fd0[s] = Disconnected

\* Server s was disconnected at the call and a credential carries its username.
Resolvable(s) == WasDisconnected(s) /\ FindUser(s) # -1

\* Server s was disconnected at the call and no credential carries its username.
Unresolvable(s) == WasDisconnected(s) /\ FindUser(s) = -1

\* C6 as stated: a disconnected backend whose username equals no credential's
\* is skipped by OpenAll: the authenticator is not called for it, no
\* credential entry is read for it, and its handle is still the disconnected
\* sentinel when OpenAll returns.
C6_UnresolvableIsSkipped ==
    \A s \in Servers :
      (lastCall = "open" /\ Unresolvable(s))
          => /\ AuthsFor(s) = {}
             /\ OpenReturned => fd[s] = Disconnected

\* C7: when OpenAll returns, every backend that was disconnected and has a
\* matching credential was passed to the authenticator exactly once, with that
\* credential, and is connected if the login succeeded, whichever other
\* backends failed their lookup or their login.
C7_FailuresAreIsolated ==
    OpenReturned =>
      \A s \in Servers :
        Resolvable(s) =>
          /\ Cardinality(AuthsFor(s)) = 1
          /\ \A i \in AuthsFor(s) :
               /\ io[i].user = FindUser(s)
               /\ io[i].ok => fd[s] # Disconnected

\* OpenAll has returned after an earlier backend failed its lookup or its
\* login and a later backend with a matching credential was connected.
C7_Witness ==
    /\ OpenReturned
    /\ \E s1, s2 \in Servers :
         /\ s1 < s2 /\ WasDisconnected(s1) /\ Resolvable(s2)
         /\ \A i \in AuthsFor(s1) : ~io[i].ok
         /\ \E i \in AuthsFor(s2) : io[i].ok /\ fd[s2] = io[i].channel

\* C8: when OpenAll returns, the handle of a backend that was disconnected
\* and has a matching credential is the channel the authenticator returned
\* if the login succeeded and the disconnected sentinel if it failed.
C8_HandleFollowsLogin ==
    OpenReturned =>
      \A s \in Servers :
        Resolvable(s) =>
          /\ AuthsFor(s) # {}
          /\ \A i \in AuthsFor(s) :
               fd[s] = IF io[i].ok THEN io[i].channel ELSE Disconnected

\* OpenAll has returned with one resolvable backend connected and another
\* resolvable backend refused.
C8_Witness ==
    /\ OpenReturned
    /\ \E s1, s2 \in Servers :
         /\ Resolvable(s1) /\ Resolvable(s2)
         /\ \E i \in AuthsFor(s1) : io[i].ok /\ fd[s1] = io[i].channel
         /\ \E i \in AuthsFor(s2) : ~io[i].ok /\ fd[s2] = Disconnected

\* C9: throughout a call of OpenAll, a backend whose handle was a live channel
\* at the call is not passed to the authenticator and keeps its handle; the
\* call made with every backend connected changes nothing and calls nothing.
C9_ConnectedAreUntouched ==
    lastCall = "open" =>
      /\ \A s \in Servers :
           ~WasDisconnected(s) => (fd[s] = fd0[s] /\ AuthsFor(s) = {})
      /\ (\A s \in Servers : ~WasDisconnected(s)) => (fd = fd0 /\ io = <<>>)

\* A second OpenAll has returned right after one that connected every backend.
C9_Witness ==
    /\ OpenReturned /\ calls = 2
    /\ \A s \in Servers : ~WasDisconnected(s)
    /\ fd = fd0 /\ io = <<>>

\* What CloseAll does on the transport for the servers from s on: for each
\* server that was connected, the termination frame then the close.
RECURSIVE CloseTrace(_)
CloseTrace(s) ==
    IF s >= NumServers THEN <<>>
    ELSE (IF WasDisconnected(s) THEN <<>>
          ELSE << [op |-> "terminate", server |-> s, channel |-> fd0[s]],
                  [op |-> "close", server |-> s, channel |-> fd0[s]] >>)
         \o CloseTrace(s + 1)

IsPrefix(p, q) == Len(p) <= Len(q) /\ p = SubSeq(q, 1, Len(p))

\* C10: CloseAll sends, for each backend with a live handle and for no other,
\* the termination frame on its channel and then closes that channel, once
\* each, and resets the handle only after the close; when it returns every
\* handle is the disconnected sentinel.
C10_CloseOrder ==
    lastCall = "close" =>
      /\ IsPrefix(io, CloseTrace(0))
      /\ \A s \in Servers :
           /\ fd[s] \in {fd0[s], Disconnected}
           /\ (~WasDisconnected(s) /\ fd[s] = Disconnected)
                => \E i \in DOMAIN io : io[i].op = "close" /\ io[i].server = s
      /\ CloseReturned =>
           /\ io = CloseTrace(0)
           /\ \A s \in Servers : fd[s] = Disconnected

\* CloseAll has returned after closing one backend and passing over a
\* disconnected one.
C10_Witness ==
    /\ CloseReturned
    /\ \E s1, s2 \in Servers : WasDisconnected(s1) /\ ~WasDisconnected(s2)
    /\ Len(io) = 2 /\ io = CloseTrace(0)
    /\ \A s \in Servers : fd[s] = Disconnected

\* The channels the authenticator has handed out so far.
Channels == 1..issued

\* C20: over any sequence of OpenAll and CloseAll calls, no channel is
\* closed twice, no terminate is sent on a closed channel, every channel
\* handed out is held by a server or has been closed, a returned CloseAll has
\* closed every channel handed out before it, and a handle is overwritten by
\* a channel only when it is the disconnected sentinel.
C20_ChannelsClosedOnce ==
    /\ [](/\ \A i, j \in DOMAIN closed : closed[i] = closed[j] => i = j
          /\ cpc \in {"terminate", "disconnect"} =>
               fd[srv] \in Channels /\ fd[srv] \notin ToSet(closed)
          /\ \A ch \in Channels :
               ch \in ToSet(closed) \/ (\E s \in Servers : fd[s] = ch)
          /\ CloseReturned =>
               /\ \A ch \in Channels : ch \in ToSet(closed)
               /\ \A s \in Servers : fd[s] = Disconnected)
    /\ [][\A s \in Servers :
            (fd'[s] # fd[s] /\ fd'[s] # Disconnected) =>
               fd[s] = Disconnected /\ fd'[s] \notin Channels]_vars

\* A CloseAll has returned after closing a channel handed out after an
\* earlier CloseAll had closed another.
C20_Witness ==
    /\ CloseReturned /\ Len(closed) >= 2 /\ calls >= 4
    /\ \A ch \in Channels : ch \in ToSet(closed)

\* --------------------------------------------------- executor: what is observed

\* query_execute(s, ...) has returned.
Returned(s) == epc[s] \in {"done", "error"}

\* The row-data frames accumulated by the call on s.
RowsReceived(s) == {i \in DOMAIN data[s] : data[s][i].kind = "D"}

\* C5: once the send or a read of a call has failed, the call returns 1 and
\* the caller's handle is what it was before the call, however many row-data
\* frames had been accumulated; and no call that has not returned 0 has
\* written the caller's handle.
C5_AllOrNothing ==
    \A s \in Servers :
      /\ (failed[s] /\ Returned(s))
            => (epc[s] = "error" /\ status[s] = 1 /\ tuples[s] = tuples0[s])
      /\ (epc[s] \notin {"unused", "done"}) => tuples[s] = tuples0[s]

\* A call has returned 1 on a failed read after two row-data frames had been
\* accumulated, and the list the caller held is still in its handle.
C5_Witness ==
    \E s \in Servers :
      /\ epc[s] = "error" /\ failed[s] /\ status[s] = 1
      /\ Cardinality(RowsReceived(s)) >= 2
      /\ tuples0[s] = HeldList /\ tuples[s] = HeldList

\* The frames of d that are ready-for-query frames.
HasReady(d) == \E i \in DOMAIN d : d[i].kind = "Z"

\* The tuples of the row-data frames of d, in the order of d, as the call on
\* s stamps them.
RECURSIVE RowsOf(_, _)
RowsOf(s, d) ==
    IF d = <<>> THEN <<>>
    ELSE (IF Head(d).kind = "D"
             THEN << [server |-> s, columns |-> probe[s].columns,
                      tag |-> probe[s].tag, name |-> Head(d).field] >>
             ELSE <<>>)
         \o RowsOf(s, Tail(d))

\* The units the call on s has read.
UnitsRead(s) == Len(wire0[s]) - Len(wire[s])

\* C12: a call that returned 0 handed over one tuple per row-data frame of
\* the accumulated buffer, in the order of the buffer, and nothing for a frame
\* of another kind; with no row-data frame the list is empty.
C12_OneNodePerRow ==
    \A s \in Servers :
      epc[s] = "done" =>
        /\ status[s] = 0
        /\ tuples[s] = RowsOf(s, data[s])
        /\ Len(tuples[s]) = Cardinality(RowsReceived(s))
        /\ RowsReceived(s) = {} => tuples[s] = NoList

\* A call has returned two tuples of different rows from a buffer that also
\* holds frames of other kinds.
C12_Witness ==
    \E s \in Servers :
      /\ epc[s] = "done" /\ status[s] = 0
      /\ Len(tuples[s]) = 2 /\ tuples[s][1].name # tuples[s][2].name
      /\ Len(data[s]) >= 4
      /\ tuples[s] = RowsOf(s, data[s])

\* C14: the read loop is at a read only while the buffer holds no ready
\* frame, and a read that delivers is followed by another read exactly when
\* the buffer still holds none: the loop leaves on the first sighting.
C14_ExitOnFirstReady ==
    /\ [](\A s \in Servers : epc[s] = "read" => ~HasReady(data[s]))
    /\ [][\A s \in Servers :
            data'[s] # data[s] =>
              /\ epc[s] = "read" /\ ~HasReady(data[s])
              /\ epc'[s] = IF HasReady(data'[s]) THEN "parse" ELSE "read"]_vars

\* The loop has left after its second read, the first to bring a ready
\* frame, with a unit of the backend still unread.
C14_Witness ==
    \E s \in Servers :
      /\ epc[s] = "parse" /\ HasReady(data[s])
      /\ UnitsRead(s) = 2 /\ wire[s] # <<>>

\* ------------------------------------------------ session: what is observed

\* query_execute was called for server s and no CloseAll has closed the
\* channel the server then had.
QueriedAndNotClosed(s) ==
    /\ epc[s] \in {"send", "read", "parse", "done", "error"}
    /\ fdAtCall[s] \notin ToSet(closed)

\* C19: no step of Execute changes any server's handle, whether the call
\* returns 0 or 1; so a server that was queried keeps the handle it had at
\* the call, failed or not, and an OpenAll that follows makes no login for it,
\* until a CloseAll has closed that channel.
C19_ExecuteKeepsHandles ==
    /\ [](\A s \in Servers :
            QueriedAndNotClosed(s) =>
              /\ fd[s] = fdAtCall[s] /\ IsLive(fd[s])
              /\ lastCall = "open" => AuthsFor(s) = {})
    /\ [][(epc' # epc) => (fd' = fd)]_vars

\* An OpenAll has returned after a query failed on a connected server; the
\* server was passed over.
C19_Witness ==
    \E s \in Servers :
      /\ epc[s] = "error" /\ failed[s]
      /\ OpenReturned /\ calls >= 3
      /\ fd[s] = fdAtCall[s] /\ IsLive(fd[s]) /\ AuthsFor(s) = {}

\* -------------------------------------- concurrent queries: what is observed

\* The frames of a sequence of units, in order.
RECURSIVE Flatten(_)
Flatten(us) == IF us = <<>> THEN <<>> ELSE Head(us) \o Flatten(Tail(us))

\* The buffer a call running alone holds when its read loop ends without a
\* failure, on a channel that delivers the units us: acc and the units up to
\* the first one after which a ready frame is in the buffer.
RECURSIVE ReadAlone(_, _)
ReadAlone(acc, us) ==
    IF us = <<>> THEN acc
    ELSE IF HasReady(acc \o Head(us)) THEN acc \o Head(us)
         ELSE ReadAlone(acc \o Head(us), Tail(us))

\* C13: with every server queried at once, under every interleaving of the
\* calls' steps, a call reads its own channel only and nobody else reads it;
\* a call that returns 0 hands over what a call alone on its channel would,
\* every tuple stamped with its own server; a call that returns 1 had a
\* failure of its own and leaves its caller's handle alone.
C13_ConcurrentCallsIndependent ==
    \A s \in Servers :
      /\ data[s] \o Flatten(wire[s]) = Flatten(wire0[s])
      /\ epc[s] \in {"idle", "send"} => wire[s] = wire0[s]
      /\ epc[s] = "done" =>
           /\ status[s] = 0
           /\ tuples[s] = RowsOf(s, ReadAlone(<<>>, wire0[s]))
           /\ \A i \in DOMAIN tuples[s] : tuples[s][i].server = s
      /\ epc[s] = "error" =>
           status[s] = 1 /\ failed[s] /\ tuples[s] = tuples0[s]

\* Two calls on backends that answer differently have both returned 0, each
\* with its own rows.
C13_Witness ==
    \E s, t \in Servers :
      /\ s # t /\ epc[s] = "done" /\ epc[t] = "done"
      /\ wire0[s] # wire0[t]
      /\ tuples[s] # <<>> /\ tuples[t] # <<>>
      /\ tuples[s][1].name # tuples[t][1].name
      /\ tuples[s][1].server = s /\ tuples[t][1].server = t

\* ------------------------------------------- termination: what is observed

\* The backend of s delivers a ready frame sooner or later.
ReadyComes(s) == HasReady(Flatten(wire0[s]))

\* C15: a call on a channel that delivers a ready frame returns, and so does
\* a call one of whose reads fails; a call returns only after a ready frame
\* is in its buffer or after a failure, however many units it has read, and a
\* call that has read all its backend delivers without a ready frame or a
\* failure is still in its read loop.
C15_ReturnsWhenChannelLets ==
    /\ \A s \in Servers : (epc[s] = "idle" /\ ReadyComes(s)) ~> Returned(s)
    /\ [](\A s \in Servers :
            /\ failed[s] => epc[s] = "error"
            /\ Returned(s) => (HasReady(data[s]) \/ failed[s])
            /\ (epc[s] \in {"read", "parse", "done"} /\ ~failed[s]
                  /\ ~ReadyComes(s))
                 => epc[s] = "read")

\* A call has read MaxUnits units, none with a ready frame, and is still in
\* its read loop.
C15_Witness ==
    \E s \in Servers :
      /\ epc[s] = "read" /\ ~failed[s] /\ ~ReadyComes(s)
      /\ wire[s] = <<>> /\ UnitsRead(s) = MaxUnits

\* ------------------------------------------------ decoder: what is observed

\* The fields of the message in rowmsg, read back from its bytes: from offset
\* off, n fields.
RECURSIVE FieldsAt(_, _)
FieldsAt(off, n) ==
    IF n = 0 THEN <<>>
    ELSE LET len == pgexporter_read_int32(rowmsg, off)
         IN  IF len < 0 THEN <<Absent>> \o FieldsAt(off + 4, n - 1)
             ELSE <<SubSeq(rowmsg, off + 5, off + 4 + len)>>
                  \o FieldsAt(off + 4 + len, n - 1)

FieldCount == rowmsg[6] * 256 + rowmsg[7]

SentFields == FieldsAt(7, FieldCount)

\* The string a reader finds in slot k (1 name, 2 value, 3 desc): the bytes
\* from the start of the slot up to the first zero byte.
RECURSIVE StringAt(_, _)
StringAt(mem, i) ==
    IF i > Len(mem) \/ mem[i] = 0 THEN <<>> ELSE <<mem[i]>> \o StringAt(mem, i + 1)

Slot(k) == StringAt(rowtuple.mem, (k - 1) * SlotCapacity + 1)

\* The first columns fields of the message are present.
FirstFieldsPresent == \A k \in 1..rowargs.columns : SentFields[k] # Absent

\* What the tuple should be: stamped, the first columns slots holding the
\* first columns payloads, the other slots empty.
DecodedAsSent ==
    /\ rowtuple.ended = "returned"
    /\ rowtuple.server = rowargs.server
    /\ rowtuple.columns = rowargs.columns
    /\ rowtuple.tag = rowargs.tag
    /\ \A k \in 1..3 :
         Slot(k) = IF k <= rowargs.columns THEN SentFields[k] ELSE <<>>

\* C11: for every column count in 1..3 and every well-formed row message
\* whose first columns fields are present, the tuple is stamped with server,
\* columns and tag, its first columns slots hold the first columns payloads in
\* order, and its other slots are empty.
C11_DecodeFillsFirstSlots ==
    (dpc = "done" /\ FirstFieldsPresent) => DecodedAsSent

\* The same for messages none of whose first columns payloads is as long as a
\* slot or longer: these the decoder gets right.
C11_HoldsBelowCapacity ==
    (/\ dpc = "done" /\ FirstFieldsPresent
     /\ \A k \in 1..rowargs.columns : Len(SentFields[k]) < SlotCapacity)
      => DecodedAsSent

\* A row of three present fields has been decoded into three slots.
C11_DecodedThree ==
    /\ dpc = "done" /\ rowargs.columns = 3 /\ FirstFieldsPresent
    /\ \A k \in 1..3 : Len(SentFields[k]) = SlotCapacity - 1
    /\ DecodedAsSent

====
